---- MODULE Spec2Model ----
(***************************************************************************)
(* Model of the loading-states repository: the halftone engine             *)
(* (utils/halftone: generateHalftoneStates and its four strategies) and    *)
(* the usage-series generator of ActorsRunCard (createUsagePositions),     *)
(* the halo builders buildStateMap and GridLoader, and the animated Loader *)
(* of LoaderShowcase with its frame history and halftone cache.            *)
(*                                                                         *)
(* Conventions                                                             *)
(*  - a Position is a record [x, y] of integers;                           *)
(*  - the template-literal key `${x},${y}` of an integer position is the   *)
(*    pair <<x, y>>: the decimal rendering of an integer is injective and  *)
(*    key.split(",").map(Number) reads the two integers back;              *)
(*  - an optional value (a TypeScript `?` field or parameter) is the       *)
(*    empty tuple when undefined and a one-element tuple when present;     *)
(*  - a real number that is not an integer is a record [num, den], den > 0;*)
(*  - a JavaScript Map<string, DotState> is a function from keys to        *)
(*    "full" / "mid"; an absent key is an empty cell.                      *)
(***************************************************************************)
EXTENDS Integers, Sequences, FiniteSets, TLC

VARIABLES
    fullPositions,  \* argument fullPositions of generateHalftoneStates
    strategy,       \* argument strategy
    gridSize,       \* argument gridSize (optional, default 5)
    frameHistory,   \* argument frameHistory (optional)
    stateMap,       \* the Map returned by the call
    thrown,         \* the error the call raised, "none" when it returned
    pc,             \* "ready" before the call, "done" after it
    callLog,        \* the arguments and the result of every call so far
    usageLevel,     \* argument usageLevel of createUsagePositions
    usageTrend,     \* argument usageTrend
    randomDraws,    \* the values Math.random() returns, repeated cyclically
    column,         \* loop counter of the jitter loop
    current,        \* the running height of the jitter loop
    targets,        \* the clamped jittered target of every column so far
    heights,        \* the array heights
    usagePositions, \* the array positions createUsagePositions returns
    upc,            \* "idle", "jitter" (in the loop) or "returned"
    usageAmount,    \* prop usageAmount of ActorsRunCard
    cardLevel,      \* prop usageLevel of ActorsRunCard
    animated,       \* prop animated of ActorsRunCard
    spikeSteps,     \* the argument steps of generateSpikePattern
    spikeDraws,     \* the values of Math.random() the pattern uses, in tenths
    pattern,        \* the array pattern of the effect of ActorsRunCard
    step,           \* the counter step of the effect
    currentAmount,  \* state currentAmount of ActorsRunCard
    currentLevel,   \* state currentLevel of ActorsRunCard
    cardTicks,      \* the number of times the interval of the card fired
    cpc,            \* "off", "mounted" (effect pending), "running" (interval
                    \* set), "cleared" or "static"
    animationPath,  \* prop animationPath of an animated Loader
    halftone,       \* prop halftone of the Loader (optional)
    customStates,   \* prop customStates of the Loader (optional)
    currentShapeIndex, \* state currentShapeIndex of the Loader
    frameHistoryRef,   \* frameHistoryRef.current
    halftoneCache,  \* halftoneCache.current, entries in insertion order
    grid,           \* state grid of the Loader: its cells that are not empty
    lpc,            \* "off", "effect" (render effect pending) or "idle"
    ticks,          \* the number of timer ticks so far
    rerenders,      \* the number of parent re-renders so far
    shownFrames,    \* the frames displayed so far, the current one first
    effectRuns      \* the frame index of every run of the render effect so
                    \* far, the latest first

halftoneVars == <<fullPositions, strategy, gridSize, frameHistory, stateMap,
                  thrown, pc, callLog>>

cardVars == <<usageAmount, cardLevel, animated, spikeSteps, spikeDraws,
              pattern, step, currentAmount, currentLevel, cardTicks, cpc>>

usageVars == <<usageLevel, usageTrend, randomDraws, column, current, targets,
               heights, usagePositions, upc, cardVars>>

loaderVars == <<animationPath, halftone, customStates, currentShapeIndex,
                frameHistoryRef,
                halftoneCache, grid, lpc, ticks, rerenders, shownFrames,
                effectRuns>>

vars == <<halftoneVars, usageVars, loaderVars>>

----------------------------------------------------------------------------
(* Optional values and small helpers                                       *)

Undefined == <<>>

Some(v) == <<v>>

\* JavaScript's a ?? b for an optional a
Nullish(o, default) == IF o = Undefined THEN default ELSE o[1]

Pos(x, y) == [x |-> x, y |-> y]

\* `${x},${y}`
Key(p) == <<p.x, p.y>>

\* key.split(",").map(Number)
ParseKey(k) == [x |-> k[1], y |-> k[2]]

Range(s) == {s[i] : i \in 1..Len(s)}

Min(a, b) == IF a <= b THEN a ELSE b

Max(a, b) == IF a >= b THEN a ELSE b

\* Array.prototype.slice(0, end) for an integer end
Slice0(s, end) ==
    LET e == IF end < 0 THEN Max(Len(s) + end, 0) ELSE Min(end, Len(s))
    IN  SubSeq(s, 1, e)

\* the keys of a list of positions, in order: ps.map(p => `${p.x},${p.y}`)
Keys(ps) == [i \in 1..Len(ps) |-> Key(ps[i])]

\* Array.from(new Set(keys)): the first occurrence of every key, in order
UniqueKeys(ks) ==
    LET IsFirst(i) == \A j \in 1..(i - 1) : ks[j] # ks[i]
        kept == SelectSeq([i \in 1..Len(ks) |-> i], IsFirst)
    IN  [i \in 1..Len(kept) |-> ks[kept[i]]]

Deduplicate(ps) ==
    LET uniqueSet == UniqueKeys(Keys(ps))
    IN  [i \in 1..Len(uniqueSet) |-> ParseKey(uniqueSet[i])]

\* the concatenation of a list of lists
RECURSIVE Flatten(_, _)
Flatten(ss, i) == IF i > Len(ss) THEN <<>> ELSE ss[i] \o Flatten(ss, i + 1)

InBounds(x, y, size) == x >= 0 /\ x < size /\ y >= 0 /\ y < size

----------------------------------------------------------------------------
(* Geometry helpers                                                        *)

\* the denominator of a point: 1 for a grid position, n for a centroid
PointDen(p) == IF "den" \in DOMAIN p THEN p.den ELSE 1

\* euclideanDistance, squared: the square of the distance is num / den
euclideanDistance(p1, p2) ==
    LET dx == p1.x * PointDen(p2) - p2.x * PointDen(p1)
        dy == p1.y * PointDen(p2) - p2.y * PointDen(p1)
        d  == PointDen(p1) * PointDen(p2)
    IN  [num |-> dx * dx + dy * dy, den |-> d * d]

\* a < b for two squared distances (square root is strictly increasing)
DistLess(a, b) == a.num * b.den < b.num * a.den

\* dist <= radius for a squared distance and a rational radius
DistWithin(dist, radius) ==
    /\ radius.num >= 0
    /\ dist.num * radius.den * radius.den <= radius.num * radius.num * dist.den

\* dist > 0
DistPositive(dist) == dist.num > 0

RECURSIVE SumField(_, _, _)
SumField(ps, i, f) ==
    IF i > Len(ps) THEN 0
    ELSE (IF f = "x" THEN ps[i].x ELSE ps[i].y) + SumField(ps, i + 1, f)

\* the centroid (sum.x / n, sum.y / n) as [x |-> sum.x, y |-> sum.y, den |-> n]
getCentroid(positions) ==
    IF Len(positions) = 0
    THEN [x |-> 0, y |-> 0, den |-> 1]
    ELSE [x |-> SumField(positions, 1, "x"),
          y |-> SumField(positions, 1, "y"),
          den |-> Len(positions)]

----------------------------------------------------------------------------
(* The strategies                                                          *)

\* getNeighbors with loops that stop one short: dx < distance, dy < distance
getNeighbors_Exclusive(x, y, size, distance, orthogonalOnly) ==
    LET n == IF distance <= 0 THEN 0 ELSE 2 * distance
        offsets == [i \in 1..(n * n) |->
                      [dx |-> ((i - 1) \div n) - distance,
                       dy |-> ((i - 1) % n) - distance]]
        Kept(o) == /\ ~(o.dx = 0 /\ o.dy = 0)
                   /\ ~(orthogonalOnly /\ o.dx # 0 /\ o.dy # 0)
                   /\ x + o.dx >= 0 /\ x + o.dx < size
                   /\ y + o.dy >= 0 /\ y + o.dy < size
        kept == SelectSeq(offsets, Kept)
    IN  [i \in 1..Len(kept) |-> Pos(x + kept[i].dx, y + kept[i].dy)]

\* getNeighbors that never skips the diagonals
getNeighbors_IgnoreOrthogonal(x, y, size, distance, orthogonalOnly) ==
    LET n == IF distance < 0 THEN 0 ELSE 2 * distance + 1
        offsets == [i \in 1..(n * n) |->
                      [dx |-> ((i - 1) \div n) - distance,
                       dy |-> ((i - 1) % n) - distance]]
        Kept(o) == /\ ~(o.dx = 0 /\ o.dy = 0)
                   /\ x + o.dx >= 0 /\ x + o.dx < size
                   /\ y + o.dy >= 0 /\ y + o.dy < size
        kept == SelectSeq(offsets, Kept)
    IN  [i \in 1..Len(kept) |-> Pos(x + kept[i].dx, y + kept[i].dy)]

\* getNeighbors with the offsets cut to a diamond: |dx| + |dy| <= distance
getNeighbors_Diamond(x, y, size, distance, orthogonalOnly) ==
    LET n == IF distance < 0 THEN 0 ELSE 2 * distance + 1
        offsets == [i \in 1..(n * n) |->
                      [dx |-> ((i - 1) \div n) - distance,
                       dy |-> ((i - 1) % n) - distance]]
        Abs(v) == IF v < 0 THEN -v ELSE v
        Kept(o) == /\ ~(o.dx = 0 /\ o.dy = 0)
                   /\ ~(orthogonalOnly /\ o.dx # 0 /\ o.dy # 0)
                   /\ Abs(o.dx) + Abs(o.dy) <= distance
                   /\ InBounds(x + o.dx, y + o.dy, size)
        kept == SelectSeq(offsets, Kept)
    IN  [i \in 1..Len(kept) |-> Pos(x + kept[i].dx, y + kept[i].dy)]

\* getNeighbors that leaves out the cells straight above: dx = 0, dy < 0
getNeighbors_NoneAbove(x, y, size, distance, orthogonalOnly) ==
    LET n == IF distance < 0 THEN 0 ELSE 2 * distance + 1
        offsets == [i \in 1..(n * n) |->
                      [dx |-> ((i - 1) \div n) - distance,
                       dy |-> ((i - 1) % n) - distance]]
        Kept(o) == /\ ~(o.dx = 0 /\ o.dy <= 0)
                   /\ ~(orthogonalOnly /\ o.dx # 0 /\ o.dy # 0)
                   /\ InBounds(x + o.dx, y + o.dy, size)
        kept == SelectSeq(offsets, Kept)
    IN  [i \in 1..Len(kept) |-> Pos(x + kept[i].dx, y + kept[i].dy)]

getNeighbors(x, y, size, distance, orthogonalOnly) ==
    LET n == IF distance < 0 THEN 0 ELSE 2 * distance + 1
        \* the offsets in loop order: dx outer, dy inner
        offsets == [i \in 1..(n * n) |->
                      [dx |-> ((i - 1) \div n) - distance,
                       dy |-> ((i - 1) % n) - distance]]
        Kept(o) == /\ ~(o.dx = 0 /\ o.dy = 0)
                   /\ ~(orthogonalOnly /\ o.dx # 0 /\ o.dy # 0)
                   /\ InBounds(x + o.dx, y + o.dy, size)
        kept == SelectSeq(offsets, Kept)
    IN  [i \in 1..Len(kept) |-> Pos(x + kept[i].dx, y + kept[i].dy)]

applyNeighborHalftones(positions, size, orthogonalOnly, distance) ==
    LET fullSet == Range(Keys(positions))
        NotFull(p) == Key(p) \notin fullSet
        perPosition == [i \in 1..Len(positions) |->
            SelectSeq(getNeighbors(positions[i].x, positions[i].y, size,
                                   distance, orthogonalOnly), NotFull)]
        midPositions == Flatten(perPosition, 1)
    IN  Deduplicate(midPositions)

\* applyTrailHalftones without the slice: every previous frame is read
applyTrailHalftones_AllFrames(currentPositions, previousFrames, length) ==
    LET fullSet == Range(Keys(currentPositions))
        NotFull(p) == Key(p) \notin fullSet
        perFrame == [i \in 1..Len(previousFrames) |->
                        SelectSeq(previousFrames[i], NotFull)]
    IN  Deduplicate(Flatten(perFrame, 1))

\* applyTrailHalftones reading the frames after the most recent one:
\* previousFrames.slice(1, length + 1)
applyTrailHalftones_SkipNewest(currentPositions, previousFrames, length) ==
    LET fullSet == Range(Keys(currentPositions))
        NotFull(p) == Key(p) \notin fullSet
        taken == Slice0(previousFrames, length + 1)
        frames == SubSeq(taken, 2, Len(taken))
        perFrame == [i \in 1..Len(frames) |-> SelectSeq(frames[i], NotFull)]
    IN  Deduplicate(Flatten(perFrame, 1))

applyTrailHalftones(currentPositions, previousFrames, length) ==
    LET fullSet == Range(Keys(currentPositions))
        NotFull(p) == Key(p) \notin fullSet
        frames == Slice0(previousFrames, length)
        perFrame == [i \in 1..Len(frames) |-> SelectSeq(frames[i], NotFull)]
        trailPositions == Flatten(perFrame, 1)
    IN  Deduplicate(trailPositions)

\* applyDistanceHalftones with positions.every in place of positions.some
applyDistanceHalftones_Every(positions, radius, size) ==
    LET fullSet == Range(Keys(positions))
        n == IF size < 0 THEN 0 ELSE size
        cells == [i \in 1..(n * n) |-> Pos((i - 1) % n, (i - 1) \div n)]
        WithinRadius(c) ==
            /\ Key(c) \notin fullSet
            /\ \A i \in 1..Len(positions) :
                  LET dist == euclideanDistance(c, positions[i])
                  IN  DistWithin(dist, radius) /\ DistPositive(dist)
    IN  SelectSeq(cells, WithinRadius)

\* applyDistanceHalftones with the comparison turned round: dist >= radius
applyDistanceHalftones_Flipped(positions, radius, size) ==
    LET fullSet == Range(Keys(positions))
        n == IF size < 0 THEN 0 ELSE size
        cells == [i \in 1..(n * n) |-> Pos((i - 1) % n, (i - 1) \div n)]
        WithinRadius(c) ==
            /\ Key(c) \notin fullSet
            /\ \E i \in 1..Len(positions) :
                  LET dist == euclideanDistance(c, positions[i])
                  IN  ~DistWithin(dist, radius) \/ 
                      dist.num * radius.den * radius.den
                          = radius.num * radius.num * dist.den
    IN  SelectSeq(cells, WithinRadius)

\* applyDistanceHalftones with dist < radius in place of dist <= radius
applyDistanceHalftones_Strict(positions, radius, size) ==
    LET fullSet == Range(Keys(positions))
        n == IF size < 0 THEN 0 ELSE size
        cells == [i \in 1..(n * n) |-> Pos((i - 1) % n, (i - 1) \div n)]
        WithinRadius(c) ==
            /\ Key(c) \notin fullSet
            /\ \E i \in 1..Len(positions) :
                  LET dist == euclideanDistance(c, positions[i])
                  IN  /\ radius.num > 0
                      /\ dist.num * radius.den * radius.den
                            < radius.num * radius.num * dist.den
                      /\ DistPositive(dist)
    IN  SelectSeq(cells, WithinRadius)

applyDistanceHalftones(positions, radius, size) ==
    LET fullSet == Range(Keys(positions))
        n == IF size < 0 THEN 0 ELSE size
        \* the grid in loop order: y outer, x inner
        cells == [i \in 1..(n * n) |-> Pos((i - 1) % n, (i - 1) \div n)]
        WithinRadius(c) ==
            /\ Key(c) \notin fullSet
            /\ \E i \in 1..Len(positions) :
                  LET dist == euclideanDistance(c, positions[i])
                  IN  DistWithin(dist, radius) /\ DistPositive(dist)
    IN  SelectSeq(cells, WithinRadius)

\* The doubles the engine computes for two real distances that differ
\* compare as the reals do.  Two equal real distances to a centroid with
\* thirds as coordinates are not always computed to the same double: the
\* tuples <<sum.x, sum.y, n, p.x, p.y, q.x, q.y>> below are the pairs of
\* explored points p, q at equal real distance from the centroid
\* (sum.x / n, sum.y / n) for which euclideanDistance(p, centroid) is the
\* smaller double.  Centroids with n = 1, 2, 4 are computed exactly.
RoundedBelow ==
    {<<1, 2, 3, -1, 0, 1, 2>>, <<1, 2, 3, 0, 0, 1, 1>>,
     <<2, 1, 3, 0, 0, 1, 1>>, <<2, 4, 3, 0, 0, 2, 2>>,
     <<2, 4, 3, 0, 1, 1, 2>>, <<5, 7, 3, 2, 3, 1, 2>>,
     <<5, 7, 3, 3, 3, 1, 1>>, <<5, 7, 3, 4, 4, 0, 0>>,
     <<7, 4, 3, 2, 0, 1, 1>>, <<7, 4, 3, 3, 1, 2, 2>>,
     <<7, 5, 3, 2, 3, 1, 2>>, <<7, 7, 3, 4, 4, 0, 2>>,
     <<7, 7, 3, 4, 4, 2, 0>>, <<8, 5, 3, 2, 2, 3, 1>>,
     <<8, 9, 3, 1, 3, 4, 4>>, <<11, 5, 3, 4, 3, 5, 2>>,
     <<13, 10, 3, 3, 4, 5, 2>>, <<14, 8, 3, 5, 2, 4, 3>>}

\* euclideanDistance(p, centroid) < euclideanDistance(q, centroid) as the
\* doubles compare
CentroidDistLess(p, q, centroid) ==
    LET a == euclideanDistance(p, centroid)
        b == euclideanDistance(q, centroid)
    IN  \/ DistLess(a, b)
        \/ /\ ~DistLess(b, a)
           /\ <<centroid.x, centroid.y, centroid.den, p.x, p.y, q.x, q.y>>
                 \in RoundedBelow

applyGradientHalftones(positions, direction, size) ==
    LET centroid == getCentroid(positions)
        neighbors == applyNeighborHalftones(positions, size, FALSE, 1)
        HasFullInDirection(neighbor) ==
            \E i \in 1..Len(positions) :
                IF direction = "outward"
                THEN CentroidDistLess(positions[i], neighbor, centroid)
                ELSE CentroidDistLess(neighbor, positions[i], centroid)
    IN  SelectSeq(neighbors, HasFullInDirection)

----------------------------------------------------------------------------
(* generateHalftoneStates                                                  *)

EmptyMap == <<>>

MapHas(m, k) == k \in DOMAIN m

MapSet(m, k, v) == (k :> v) @@ m

\* the seeding loop with x > 0 and y > 0 for the lower bounds
RECURSIVE SetFullPositions_StrictLower(_, _, _, _)
SetFullPositions_StrictLower(m, ps, i, size) ==
    IF i > Len(ps) THEN m
    ELSE SetFullPositions_StrictLower(
            IF ps[i].x > 0 /\ ps[i].x < size /\ ps[i].y > 0 /\ ps[i].y < size
            THEN MapSet(m, Key(ps[i]), "full") ELSE m,
            ps, i + 1, size)

\* the seeding loop without its bounds check
RECURSIVE SetFullPositions_NoBounds(_, _, _, _)
SetFullPositions_NoBounds(m, ps, i, size) ==
    IF i > Len(ps) THEN m
    ELSE SetFullPositions_NoBounds(MapSet(m, Key(ps[i]), "full"),
                                   ps, i + 1, size)

\* fullPositions.forEach: an in-bounds position is set to "full"
RECURSIVE SetFullPositions(_, _, _, _)
SetFullPositions(m, ps, i, size) ==
    IF i > Len(ps) THEN m
    ELSE SetFullPositions(
            IF InBounds(ps[i].x, ps[i].y, size)
            THEN MapSet(m, Key(ps[i]), "full") ELSE m,
            ps, i + 1, size)

\* the merge loop without its bounds check
RECURSIVE SetMidPositions_NoBounds(_, _, _, _)
SetMidPositions_NoBounds(m, ps, i, size) ==
    IF i > Len(ps) THEN m
    ELSE IF ~MapHas(m, Key(ps[i]))
         THEN SetMidPositions_NoBounds(MapSet(m, Key(ps[i]), "mid"),
                                       ps, i + 1, size)
         ELSE SetMidPositions_NoBounds(m, ps, i + 1, size)

\* midPositions.forEach: an in-bounds position with no entry is set to "mid"
RECURSIVE SetMidPositions(_, _, _, _)
SetMidPositions(m, ps, i, size) ==
    IF i > Len(ps) THEN m
    ELSE IF ~MapHas(m, Key(ps[i])) /\ InBounds(ps[i].x, ps[i].y, size)
         THEN SetMidPositions(MapSet(m, Key(ps[i]), "mid"), ps, i + 1, size)
         ELSE SetMidPositions(m, ps, i + 1, size)

\* the switch on strategy.type; it has no default branch
MidPositionsOf(positions, strat, size, history) ==
    CASE strat.type = "neighbors" ->
            applyNeighborHalftones(positions, size,
                                   Nullish(strat.orthogonalOnly, FALSE),
                                   Nullish(strat.distance, 1))
      [] strat.type = "trail" ->
            applyTrailHalftones(positions, Nullish(history, <<>>), strat.length)
      [] strat.type = "distance" ->
            applyDistanceHalftones(positions, strat.radius, size)
      [] strat.type = "gradient" ->
            applyGradientHalftones(positions, strat.direction, size)
      [] OTHER -> <<>>

DefaultGridSize == 5

\* generateHalftoneStates with its Map kept between calls: a call adds to
\* the entries the previous call left
generateHalftoneStates_SharedMap(positions, strat, sizeOpt, history) ==
    LET size == Nullish(sizeOpt, DefaultGridSize)
        seeded == SetFullPositions(stateMap, positions, 1, size)
        midPositions == MidPositionsOf(positions, strat, size, history)
    IN  SetMidPositions(seeded, midPositions, 1, size)

generateHalftoneStates(positions, strat, sizeOpt, history) ==
    LET size == Nullish(sizeOpt, DefaultGridSize)
        seeded == SetFullPositions(EmptyMap, positions, 1, size)
        midPositions == MidPositionsOf(positions, strat, size, history)
    IN  SetMidPositions(seeded, midPositions, 1, size)

\* the cells of a map that carry a given state
CellsOf(m, state) == {k \in DOMAIN m : m[k] = state}

----------------------------------------------------------------------------
(* The halo builders outside the engine                                    *)

\* the keys the first forEach of buildStateMap sets to "full"
SeedFull(ps, columns, rows) ==
    {Key(ps[i]) : i \in {j \in 1..Len(ps) :
                            /\ ps[j].x >= 0 /\ ps[j].x < columns
                            /\ ps[j].y >= 0 /\ ps[j].y < rows}}

\* the keys the dx/dy loops reach around one position: the centre and the
\* out-of-range cells are skipped
HaloAround(p, columns, rows) ==
    {<<p.x + dx, p.y + dy>> : dx \in -1..1, dy \in -1..1} \
        ({Key(p)} \cup {k \in {<<p.x + dx, p.y + dy>> : dx \in -1..1,
                                                         dy \in -1..1} :
                          \/ k[1] < 0 \/ k[1] >= columns
                          \/ k[2] < 0 \/ k[2] >= rows})

\* buildStateMap with the halo written over full cells
buildStateMap_NoFullCheck(ps, columns, rows) ==
    LET full == SeedFull(ps, columns, rows)
        mid == UNION {HaloAround(ps[i], columns, rows) : i \in 1..Len(ps)}
    IN  [k \in full \cup mid |-> IF k \in mid THEN "mid" ELSE "full"]

\* buildStateMap (ActorsRunCard): a reached key outside fullSet is set "mid"
buildStateMap(ps, columns, rows) ==
    LET fullSet == Range(Keys(ps))
        full == SeedFull(ps, columns, rows)
        mid == UNION {HaloAround(ps[i], columns, rows) \ fullSet :
                         i \in 1..Len(ps)}
    IN  [k \in full \cup mid |-> IF k \in mid THEN "mid" ELSE "full"]

\* GRID_SIZE of the actors page
GRID_SIZE == 5

\* arrowShape of GridLoader
arrowShape == <<Pos(2, 0), Pos(3, 1), Pos(0, 2), Pos(1, 2), Pos(2, 2),
                Pos(3, 2), Pos(4, 2), Pos(3, 3), Pos(2, 4)>>

\* getNeighbors of GridLoader: the eight neighbours inside the grid
gridLoaderNeighbors(x, y) ==
    LET offsets == [i \in 1..9 |-> [dx |-> ((i - 1) \div 3) - 1,
                                      dy |-> ((i - 1) % 3) - 1]]
        Kept(o) == /\ ~(o.dx = 0 /\ o.dy = 0)
                   /\ x + o.dx >= 0 /\ x + o.dx < GRID_SIZE
                   /\ y + o.dy >= 0 /\ y + o.dy < GRID_SIZE
        kept == SelectSeq(offsets, Kept)
    IN  [i \in 1..Len(kept) |-> Pos(x + kept[i].dx, y + kept[i].dy)]

\* the effect of GridLoader: the cells of newGrid that are not empty
gridLoaderStates(shape) ==
    LET full == {Key(shape[i]) : i \in {j \in 1..Len(shape) :
                     /\ shape[j].x >= 0 /\ shape[j].x < GRID_SIZE
                     /\ shape[j].y >= 0 /\ shape[j].y < GRID_SIZE}}
        IsPartOfArrow(n) == \E i \in 1..Len(shape) :
                                shape[i].x = n.x /\ shape[i].y = n.y
        neighborSet ==
            UNION {{Key(n) : n \in {m \in Range(gridLoaderNeighbors(
                                        shape[i].x, shape[i].y)) :
                                    ~IsPartOfArrow(m)}} : i \in 1..Len(shape)}
    IN  [k \in full \cup neighborSet |->
            IF k \in neighborSet THEN "mid" ELSE "full"]

----------------------------------------------------------------------------
(* The calls of generateHalftoneStates that are explored                   *)

MaxFull == 2

MaxHistory == 2

MaxTrailLength == 3

\* all sequences over S of length at most n
SeqsUpTo(S, n) == UNION {[1..k -> S] : k \in 0..n}

FullCells ==
    {Pos(-1, 0), Pos(0, 0), Pos(1, 1), Pos(2, 2), Pos(2, 3), Pos(4, 4), Pos(5, 2)}

Frames ==
    {<<>>, <<Pos(2, 2)>>, <<Pos(1, 1), Pos(5, 2)>>, <<Pos(0, 0), Pos(1, 1)>>}

GridSizes == {Undefined, Some(0), Some(3), Some(5)}

Radii == {[num |-> -1, den |-> 1], [num |-> 1, den |-> 1],
          [num |-> 3, den |-> 2], [num |-> 2, den |-> 1],
          [num |-> 3, den |-> 1]}

NeighborStrategies ==
    {[type |-> "neighbors", orthogonalOnly |-> o, distance |-> d] :
        o \in {Undefined, Some(TRUE), Some(FALSE)},
        d \in {Undefined, Some(0), Some(1), Some(2)}}

TrailStrategies == {[type |-> "trail", length |-> l] : l \in 0..MaxTrailLength}

DistanceStrategies == {[type |-> "distance", radius |-> r] : r \in Radii}

GradientStrategies ==
    {[type |-> "gradient", direction |-> d] : d \in {"outward", "inward"}}

\* a strategy object whose type tag is none of the four
UnknownStrategies == {[type |-> "unknown"]}

KnownTypes == {"neighbors", "trail", "distance", "gradient"}

CardIdle ==
    /\ usageAmount = 0
    /\ cardLevel = [num |-> 0, den |-> 1]
    /\ animated = FALSE
    /\ spikeSteps = 0
    /\ spikeDraws = <<>>
    /\ pattern = <<>>
    /\ step = 0
    /\ currentAmount = [num |-> 0, den |-> 1]
    /\ currentLevel = [num |-> 0, den |-> 1]
    /\ cardTicks = 0
    /\ cpc = "off"

UsageIdle ==
    /\ CardIdle
    /\ usageLevel = [num |-> 0, den |-> 1]
    /\ usageTrend = [num |-> 0, den |-> 1]
    /\ randomDraws = <<>>
    /\ column = 0
    /\ current = 0
    /\ targets = <<>>
    /\ heights = <<>>
    /\ usagePositions = <<>>
    /\ upc = "idle"

\* no Loader is mounted
LoaderIdle ==
    /\ animationPath = <<>>
    /\ halftone = Undefined
    /\ customStates = Undefined
    /\ currentShapeIndex = 0
    /\ frameHistoryRef = <<>>
    /\ halftoneCache = <<>>
    /\ grid = EmptyMap
    /\ lpc = "off"
    /\ ticks = 0
    /\ rerenders = 0
    /\ shownFrames = <<>>
    /\ effectRuns = <<>>

Init ==
    /\ fullPositions \in SeqsUpTo(FullCells, MaxFull)
    /\ gridSize \in GridSizes
    /\ \/ /\ strategy \in TrailStrategies
          /\ frameHistory \in {Undefined} \cup
                               {Some(h) : h \in SeqsUpTo(Frames, MaxHistory)}
       \/ /\ strategy \in NeighborStrategies \cup DistanceStrategies
                           \cup GradientStrategies \cup UnknownStrategies
          /\ frameHistory \in {Undefined, Some(<<<<Pos(2, 2)>>>>)}
    /\ stateMap = EmptyMap
    /\ thrown = "none"
    /\ pc = "ready"
    /\ callLog = <<>>
    /\ UsageIdle
    /\ LoaderIdle

\* one call of generateHalftoneStates; the function has no throw statement
Generate ==
    /\ pc = "ready"
    /\ stateMap' = generateHalftoneStates(fullPositions, strategy, gridSize,
                                          frameHistory)
    /\ thrown' = "none"
    /\ pc' = "done"
    /\ callLog' = Append(callLog,
          [positions |-> fullPositions, strat |-> strategy,
           size |-> gridSize, history |-> frameHistory,
           result |-> stateMap'])
    /\ UNCHANGED <<fullPositions, strategy, gridSize, frameHistory>>
    /\ UNCHANGED usageVars
    /\ UNCHANGED loaderVars

\* the render of a card: buildStateMap on a square grid of the given side
BuildStateMap ==
    /\ pc = "ready"
    /\ stateMap' = buildStateMap(fullPositions,
                                 Nullish(gridSize, DefaultGridSize),
                                 Nullish(gridSize, DefaultGridSize))
    /\ thrown' = "none"
    /\ pc' = "built"
    /\ UNCHANGED <<fullPositions, strategy, gridSize, frameHistory, callLog>>
    /\ UNCHANGED usageVars
    /\ UNCHANGED loaderVars

\* the mount effect of GridLoader, which draws its own arrowShape
GridLoaderEffect ==
    /\ pc = "ready"
    /\ stateMap' = gridLoaderStates(arrowShape)
    /\ thrown' = "none"
    /\ pc' = "grid"
    /\ UNCHANGED <<fullPositions, strategy, gridSize, frameHistory, callLog>>
    /\ UNCHANGED usageVars
    /\ UNCHANGED loaderVars

Next == Generate

Spec == Init /\ [][Next]_vars

\* the position lists and grid sides given to the halo builders
InitHalo ==
    /\ fullPositions \in SeqsUpTo(FullCells, MaxFull)
    /\ gridSize \in GridSizes
    /\ strategy = [type |-> "neighbors", orthogonalOnly |-> Some(FALSE),
                   distance |-> Some(1)]
    /\ frameHistory = Undefined
    /\ stateMap = EmptyMap
    /\ thrown = "none"
    /\ pc = "ready"
    /\ callLog = <<>>
    /\ UsageIdle
    /\ LoaderIdle

NextHalo == BuildStateMap \/ GridLoaderEffect

SpecHalo == InitHalo /\ [][NextHalo]_vars

----------------------------------------------------------------------------
(* Repeated calls of generateHalftoneStates by one caller                  *)

MaxCalls == 3

CallPositions == {<<Pos(0, 0)>>, <<Pos(1, 1)>>}

CallStrategies ==
    {[type |-> "neighbors", orthogonalOnly |-> Undefined,
      distance |-> Undefined],
     [type |-> "trail", length |-> 1],
     [type |-> "distance", radius |-> [num |-> 1, den |-> 1]],
     [type |-> "gradient", direction |-> "outward"]}

CallHistories == {Undefined, Some(<<<<Pos(0, 0)>>>>)}

InitCalls ==
    /\ fullPositions \in CallPositions
    /\ strategy \in CallStrategies
    /\ gridSize = Some(3)
    /\ frameHistory \in CallHistories
    /\ stateMap = EmptyMap
    /\ thrown = "none"
    /\ pc = "ready"
    /\ callLog = <<>>
    /\ UsageIdle
    /\ LoaderIdle

\* the caller prepares the arguments of its next call; the Map the last call
\* returned stays with the caller
NextCall ==
    /\ pc = "done"
    /\ Len(callLog) < MaxCalls
    /\ fullPositions' \in CallPositions
    /\ strategy' \in CallStrategies
    /\ frameHistory' \in CallHistories
    /\ pc' = "ready"
    /\ UNCHANGED <<gridSize, stateMap, thrown, callLog>>
    /\ UNCHANGED usageVars
    /\ UNCHANGED loaderVars

NextCalls == Generate \/ NextCall

SpecCalls == InitCalls /\ [][NextCalls]_vars

----------------------------------------------------------------------------
(* Gradient calls on shapes of up to three cells                           *)

MaxGradientFull == 3

GradientCells == {Pos(0, 0), Pos(0, 1), Pos(2, 0), Pos(2, 2)}

InitGradient ==
    /\ fullPositions \in SeqsUpTo(GradientCells, MaxGradientFull)
    /\ strategy \in GradientStrategies
    /\ gridSize = Some(3)
    /\ frameHistory = Undefined
    /\ stateMap = EmptyMap
    /\ thrown = "none"
    /\ pc = "ready"
    /\ callLog = <<>>
    /\ UsageIdle
    /\ LoaderIdle

SpecGradient == InitGradient /\ [][Next]_vars


----------------------------------------------------------------------------
(* Trail calls with long histories                                         *)

\* the Loader keeps at most this many frames: Math.min(length, 10)
HistoryCap == 10

MaxDeepHistory == 11

MaxDeepLength == 11

DeepFrames == {<<Pos(0, 0)>>, <<Pos(1, 1)>>}

InitTrail ==
    /\ fullPositions \in {<<>>, <<Pos(0, 0)>>}
    /\ gridSize = Some(2)
    /\ strategy \in {[type |-> "trail", length |-> l] : l \in 0..MaxDeepLength}
    /\ frameHistory \in {Some(h) : h \in SeqsUpTo(DeepFrames, MaxDeepHistory)}
    /\ stateMap = EmptyMap
    /\ thrown = "none"
    /\ pc = "ready"
    /\ callLog = <<>>
    /\ UsageIdle
    /\ LoaderIdle

SpecTrail == InitTrail /\ [][Next]_vars

----------------------------------------------------------------------------
(* createUsagePositions (ActorsRunCard)                                    *)
(*                                                                         *)
(* usageLevel, usageTrend and the values of Math.random() are rationals    *)
(* [num, den].  The sum that yields a base height is computed exactly over *)
(* the common denominator PowScale * 10 * level.den * trend.den, with      *)
(* Math.pow(t, 1.4) read from a table of its values at t = column / 20.    *)

GRID_COLUMNS == 21

GRID_ROWS == 13

\* Math.pow(column / 20, 1.4) * PowScale, rounded, for column = 0..20
PowScale == 10000

Pow14 == <<0, 151, 398, 702, 1051, 1436, 1853, 2300, 2773, 3270, 3789,
           4330, 4891, 5471, 6069, 6685, 7317, 7965, 8629, 9307, 10000>>

Rat(n, d) == [num |-> n, den |-> d]

\* Math.round of num / den, den > 0: halves round towards plus infinity
Round(num, den) == (2 * num + den) \div (2 * den)

\* Math.floor of num / den, den > 0
Floor(num, den) == num \div den

\* the clamp without its upper bound: Math.max(lo, v)
ClampRat_NoUpper(v, lo, hi) ==
    IF v.num < lo * v.den THEN Rat(lo, 1) ELSE v

\* Math.max(lo, Math.min(hi, v)) for integers lo <= hi and a rational v
ClampRat(v, lo, hi) ==
    IF v.num > hi * v.den THEN Rat(hi, 1)
    ELSE IF v.num < lo * v.den THEN Rat(lo, 1)
    ELSE v

maxHeight == GRID_ROWS - 1

\* baseHeight with amplitude = clamped + (0.2 + 0.8 * curve): + in place of *
baseHeight_AddAmplitude(clamped, trend, col) ==
    LET K == GRID_COLUMNS - 1
        den == PowScale * 10 * clamped.den * trend.den
        amplitude == (clamped.num * 10 * K * K
                        + clamped.den * (2 * K * K + 8 * col * col)) * maxHeight
                        * (PowScale \div (K * K)) * trend.den
        trendOffset == trend.num * Pow14[col + 1] * maxHeight * 9 * clamped.den
        tailDrop == IF trend.num < 0 /\ 10 * col > 6 * K
                    THEN (0 - trend.num) * (10 * col - 6 * K) * maxHeight * 6
                            * (PowScale \div (4 * K)) * clamped.den
                    ELSE 0
    IN  Round(amplitude + trendOffset - tailDrop, den)

\* one entry of baseHeights, with K = GRID_COLUMNS - 1 and t = col / K:
\* the three terms over the common denominator PowScale * 10 * level.den *
\* trend.den
baseHeight(clamped, trend, col) ==
    LET K == GRID_COLUMNS - 1
        den == PowScale * 10 * clamped.den * trend.den
        \* amplitude * maxHeight = clamped * (0.2 + 0.8 * t * t) * maxHeight
        \*                       = clamped * (2 K^2 + 8 col^2) / (10 K^2) * maxHeight
        amplitude == clamped.num * (2 * K * K + 8 * col * col) * maxHeight
                        * (PowScale \div (K * K)) * trend.den
        \* trend * Math.pow(t, 1.4) * maxHeight * 0.9
        trendOffset == trend.num * Pow14[col + 1] * maxHeight * 9 * clamped.den
        \* trend < 0 && t > 0.6 ? |trend| * ((t - 0.6) / 0.4) * maxHeight * 0.6 : 0
        \*   where (t - 0.6) / 0.4 = (10 col - 6 K) / (4 K)
        tailDrop == IF trend.num < 0 /\ 10 * col > 6 * K
                    THEN (0 - trend.num) * (10 * col - 6 * K) * maxHeight * 6
                            * (PowScale \div (4 * K)) * clamped.den
                    ELSE 0
    IN  Round(amplitude + trendOffset - tailDrop, den)

baseHeights(clamped, trend) ==
    [i \in 1..GRID_COLUMNS |-> baseHeight(clamped, trend, i - 1)]

\* Math.max(1, Math.round(clamped * 2))
jitterOf(clamped) == Max(1, Round(clamped.num * 2, clamped.den))

\* Math.floor(Math.random() * (jitter * 2 + 1)) - jitter
deltaOf(random, jitter) ==
    Floor(random.num * (jitter * 2 + 1), random.den) - jitter

\* the jittered target without the upper clamp Math.min(maxHeight, ...)
jitterTarget_NoUpperClamp(base, delta) == Max(0, base + delta)

\* Math.min(maxHeight, Math.max(0, baseHeights[column] + delta))
jitterTarget(base, delta) == Min(maxHeight, Max(0, base + delta))

\* ease = 0.45
EasePercent == 45

\* the blend with the ease of 0.6 in place of 0.45
blend_Ease60(cur, target) == Round(cur * 40 + target * 60, 100)

\* Math.round(current * (1 - ease) + target * ease)
blend(cur, target) ==
    Round(cur * (100 - EasePercent) + target * EasePercent, 100)

\* heights.map(...): the three-tap smoothing
smoothedOf(hs) ==
    [i \in 1..Len(hs) |->
        LET prev == hs[Max(1, i - 1)]
            next == hs[Min(Len(hs), i + 1)]
        IN  Round(prev + hs[i] * 2 + next, 4)]

\* the final loop: one position per column
positionsOf(smoothed) ==
    [i \in 1..GRID_COLUMNS |-> Pos(i - 1, maxHeight - smoothed[i])]

\* the jitter loop from a column on: the heights it pushes
RECURSIVE jitterHeights(_, _, _, _, _)
jitterHeights(bases, jitter, draws, col, cur) ==
    IF col >= GRID_COLUMNS THEN <<>>
    ELSE LET random == draws[(col % Len(draws)) + 1]
             target == jitterTarget(bases[col + 1], deltaOf(random, jitter))
             new == blend(cur, target)
         IN  <<new>> \o jitterHeights(bases, jitter, draws, col + 1, new)

\* createUsagePositions for given values of Math.random()
createUsagePositions(level, trend, draws) ==
    LET clamped == ClampRat(level, 0, 1)
        trend1 == ClampRat(trend, -1, 1)
        bases == baseHeights(clamped, trend1)
        hs == jitterHeights(bases, jitterOf(clamped), draws, 0, bases[1])
    IN  positionsOf(smoothedOf(hs))

----------------------------------------------------------------------------
(* The calls of createUsagePositions that are explored                     *)

\* the values of Math.random() repeat with a period of at most MaxDrawPeriod
MaxDrawPeriod == 3

UsageLevels == {Rat(-1, 4), Rat(0, 1), Rat(1, 4), Rat(1, 2), Rat(3, 4),
                Rat(1, 1), Rat(5, 4)}

UsageTrends == {Rat(-3, 2), Rat(-1, 1), Rat(-1, 2), Rat(0, 1), Rat(1, 2),
                Rat(1, 1), Rat(3, 2)}

\* values of Math.random(), which lie in [0, 1)
RandomValues == {Rat(0, 5), Rat(1, 5), Rat(2, 5), Rat(3, 5), Rat(4, 5)}

clampedLevel == ClampRat(usageLevel, 0, 1)

clampedTrend == ClampRat(usageTrend, -1, 1)

HalftoneIdle ==
    /\ fullPositions = <<>>
    /\ strategy = [type |-> "unknown"]
    /\ gridSize = Undefined
    /\ frameHistory = Undefined
    /\ stateMap = EmptyMap
    /\ thrown = "none"
    /\ pc = "idle"
    /\ callLog = <<>>

\* createUsagePositions up to the jitter loop: current = baseHeights[0]
InitUsage ==
    /\ usageLevel \in UsageLevels
    /\ usageTrend \in UsageTrends
    /\ randomDraws \in UNION {[1..k -> RandomValues] : k \in 1..MaxDrawPeriod}
    /\ column = 0
    /\ current = baseHeights(clampedLevel, clampedTrend)[1]
    /\ targets = <<>>
    /\ heights = <<>>
    /\ usagePositions = <<>>
    /\ upc = "jitter"
    /\ CardIdle
    /\ HalftoneIdle
    /\ LoaderIdle

\* one iteration of the jitter loop
JitterStep ==
    /\ upc = "jitter"
    /\ column < GRID_COLUMNS
    /\ LET random == randomDraws[(column % Len(randomDraws)) + 1]
           delta == deltaOf(random, jitterOf(clampedLevel))
           target == jitterTarget(
                        baseHeights(clampedLevel, clampedTrend)[column + 1],
                        delta)
       IN  /\ current' = blend(current, target)
           /\ targets' = Append(targets, target)
           /\ heights' = Append(heights, blend(current, target))
    /\ column' = column + 1
    /\ UNCHANGED <<usageLevel, usageTrend, randomDraws, usagePositions, upc>>
    /\ UNCHANGED cardVars
    /\ UNCHANGED halftoneVars
    /\ UNCHANGED loaderVars

\* the smoothing pass, the position loop and the return
ReturnPositions ==
    /\ upc = "jitter"
    /\ column = GRID_COLUMNS
    /\ usagePositions' = positionsOf(smoothedOf(heights))
    /\ upc' = "returned"
    /\ UNCHANGED <<usageLevel, usageTrend, randomDraws, column, current,
                   targets, heights>>
    /\ UNCHANGED cardVars
    /\ UNCHANGED halftoneVars
    /\ UNCHANGED loaderVars

NextUsage == JitterStep \/ ReturnPositions

SpecUsage == InitUsage /\ [][NextUsage]_vars

----------------------------------------------------------------------------
(* The animated amount of ActorsRunCard                                    *)

\* generateSpikePattern(usageAmount, 30)
PatternSteps == 30

\* const level = amount / 120
LevelScale == 120

MaxSpikeSteps == 3

\* the iterations i..steps of the loop of generateSpikePattern; cur is
\* the variable current,
\* counted in units of 1 / (steps * 10), so that stepSize is targetAmount * 10
\* units, and iteration i takes two values of Math.random() in tenths
RECURSIVE spikeLoop(_, _, _, _, _)
spikeLoop(targetAmount, steps, draws, i, cur) ==
    IF i > steps THEN <<>>
    ELSE LET chance == draws[((2 * (i - 1)) % Len(draws)) + 1]
             random == draws[((2 * (i - 1) + 1) % Len(draws)) + 1]
             spike == targetAmount * (10 + random * 2)
             gradual == targetAmount * (5 + random)
             next == Min(targetAmount * steps * 10,
                         cur + (IF chance < 2 THEN spike ELSE gradual))
         IN  <<next>> \o spikeLoop(targetAmount, steps, draws, i + 1, next)

\* generateSpikePattern without the final pattern[pattern.length - 1] =
\* targetAmount
generateSpikePattern_NoFinal(targetAmount, steps, draws) ==
    LET loop == <<0>> \o spikeLoop(targetAmount, steps, draws, 1, 0)
    IN  [i \in 1..Len(loop) |-> Rat(loop[i], steps * 10)]

\* generateSpikePattern for given values of Math.random()
generateSpikePattern(targetAmount, steps, draws) ==
    LET loop == <<0>> \o spikeLoop(targetAmount, steps, draws, 1, 0)
    IN  [i \in 1..Len(loop) |->
            IF i = Len(loop) THEN Rat(targetAmount, 1)
            ELSE Rat(loop[i], steps * 10)]

UsageAmounts == {0, 60, 150}

CardLevels == {Rat(1, 2), Rat(5, 4)}

\* values of Math.random() in tenths: 0, 0.1, 0.2, 0.5 and 0.9
DrawTenths == {0, 1, 2, 5, 9}

\* the numbers of steps a pattern is generated for: the card asks for 30
SpikeSteps == (1..MaxSpikeSteps) \cup {PatternSteps}

\* ActorsRunCard after its first render: useState(animated ? 0 : usageAmount)
\* and useState(animated ? 0 : usageLevel), the effect is pending
InitCard ==
    /\ usageAmount \in UsageAmounts
    /\ cardLevel \in CardLevels
    /\ animated \in BOOLEAN
    /\ spikeSteps \in SpikeSteps
    /\ spikeDraws \in UNION {[1..k -> DrawTenths] : k \in 1..MaxDrawPeriod}
    /\ pattern = <<>>
    /\ step = 0
    /\ currentAmount = IF animated THEN Rat(0, 1) ELSE Rat(usageAmount, 1)
    /\ currentLevel = IF animated THEN Rat(0, 1) ELSE cardLevel
    /\ cardTicks = 0
    /\ cpc = "mounted"
    /\ usageLevel = [num |-> 0, den |-> 1]
    /\ usageTrend = [num |-> 0, den |-> 1]
    /\ randomDraws = <<>>
    /\ column = 0
    /\ current = 0
    /\ targets = <<>>
    /\ heights = <<>>
    /\ usagePositions = <<>>
    /\ upc = "idle"
    /\ HalftoneIdle
    /\ LoaderIdle

cardUnchanged ==
    /\ UNCHANGED <<usageLevel, usageTrend, randomDraws, column, current,
                   targets, heights, usagePositions, upc>>
    /\ UNCHANGED halftoneVars
    /\ UNCHANGED loaderVars

\* the effect of ActorsRunCard: without animation it sets both states,
\* with animation it generates the pattern and sets the interval
CardEffect ==
    /\ cpc = "mounted"
    /\ IF ~animated
       THEN /\ currentAmount' = Rat(usageAmount, 1)
            /\ currentLevel' = cardLevel
            /\ cpc' = "static"
            /\ UNCHANGED <<pattern, step>>
       ELSE /\ pattern' = generateSpikePattern(usageAmount, spikeSteps,
                                               spikeDraws)
            /\ step' = 0
            /\ cpc' = "running"
            /\ UNCHANGED <<currentAmount, currentLevel>>
    /\ UNCHANGED <<usageAmount, cardLevel, animated, spikeSteps, spikeDraws,
                   cardTicks>>
    /\ cardUnchanged

\* the pattern is taken as stepped through one entry early
patternDone_Early(st, length) == st >= length - 2

\* if (step >= pattern.length - 1)
patternDone(st, length) == st >= length - 1

\* the callback of the interval
CardTick ==
    /\ cpc = "running"
    /\ cardTicks' = cardTicks + 1
    /\ IF patternDone(step, Len(pattern))
       THEN /\ cpc' = "cleared"
            /\ currentAmount' = Rat(usageAmount, 1)
            /\ currentLevel' = cardLevel
            /\ step' = step
       ELSE LET amount == pattern[step + 1]
            IN  /\ currentAmount' = amount
                /\ currentLevel' = Rat(amount.num, amount.den * LevelScale)
                /\ step' = step + 1
                /\ cpc' = cpc
    /\ UNCHANGED <<usageAmount, cardLevel, animated, spikeSteps, spikeDraws,
                   pattern>>
    /\ cardUnchanged

NextCard == CardEffect \/ CardTick

SpecCard == InitCard /\ [][NextCard]_vars

\* a pending effect of the card runs; CardEffect is enabled exactly when
\* cpc = "mounted" and is the only step that leaves it
CardEffectCompletes == cpc = "mounted" /\ cpc' \in {"static", "running"}

\* the card with an interval that fires after every period until it is
\* cleared
SpecCardLive ==
    /\ InitCard
    /\ [][NextCard]_vars
    /\ WF_vars(CardTick)
    /\ WF_cpc(CardEffectCompletes)

----------------------------------------------------------------------------
(* The animated Loader of LoaderShowcase with a halftone prop              *)

\* the entries the cache may hold after an update
CacheLimit == 100

MaxTicks == 12
MaxRerenders == 1
MaxLoaderLength == 3

\* how many entries the records shownFrames and effectRuns keep: more than
\* the longest trail the render effect can hold
GhostWindow == HistoryCap + 3

\* animations of distinct frames on the 5x5 grid
AnimationPaths ==
    {<<<<Pos(0, 0)>>, <<Pos(1, 0)>>, <<Pos(2, 0)>>>>,
     <<<<Pos(0, 0), Pos(1, 1)>>, <<Pos(1, 1), Pos(2, 2)>>>>,
     <<<<Pos(3, 3)>>>>}

LoaderHalftones ==
    {Some([strategy |-> [type |-> "trail", length |-> l],
          enabled |-> Undefined]) :
        l \in (0..MaxLoaderLength) \cup ((HistoryCap - 1)..(HistoryCap + 2))}
    \cup {Some([strategy |-> [type |-> "neighbors",
                              orthogonalOnly |-> Undefined,
                              distance |-> Undefined],
                 enabled |-> Undefined])}

\* the Loader after its first render: the render effect is pending
InitLoader ==
    /\ animationPath \in AnimationPaths
    /\ halftone \in LoaderHalftones
    /\ customStates = Undefined
    /\ currentShapeIndex = 0
    /\ frameHistoryRef = <<>>
    /\ halftoneCache = <<>>
    /\ grid = EmptyMap
    /\ lpc = "effect"
    /\ ticks = 0
    /\ rerenders = 0
    /\ shownFrames = <<animationPath[1]>>
    /\ effectRuns = <<>>
    /\ HalftoneIdle
    /\ UsageIdle

CacheKeys(cache) == {cache[i].key : i \in 1..Len(cache)}

CacheGet(cache, key) ==
    cache[CHOOSE i \in 1..Len(cache) : cache[i].key = key].value

\* CacheSet that deletes the newest key over 100 instead of the first
CacheSet_DropNewest(cache, key, value) ==
    LET added == IF key \in CacheKeys(cache)
                 THEN cache
                 ELSE Append(cache, [key |-> key, value |-> value])
    IN  IF Len(added) > CacheLimit THEN SubSeq(added, 1, CacheLimit)
        ELSE added

\* Map.set followed by the size limit: the first key is deleted over 100
CacheSet(cache, key, value) ==
    LET added == IF key \in CacheKeys(cache)
                 THEN [i \in 1..Len(cache) |->
                          IF cache[i].key = key
                          THEN [key |-> key, value |-> value] ELSE cache[i]]
                 ELSE Append(cache, [key |-> key, value |-> value])
    IN  IF Len(added) > CacheLimit THEN Tail(added) ELSE added

\* updatedHistory without the cap of 10: newHistory.slice(0, length)
updatedHistory_NoCap(currentShape, history, length) ==
    Slice0(<<currentShape>> \o history, length)

\* the history after a run of the render effect with a trail strategy
updatedHistory(currentShape, history, length) ==
    LET maxLength == Min(length, HistoryCap)
        newHistory == <<currentShape>> \o history
    IN  Slice0(newHistory, maxLength)

\* Priority 3: a new Map with "full" for every in-grid cell of the shape
fullOnlyStates(currentShape) ==
    [k \in {Key(currentShape[i]) :
               i \in {j \in 1..Len(currentShape) :
                        /\ currentShape[j].x >= 0
                        /\ currentShape[j].x < GRID_SIZE
                        /\ currentShape[j].y >= 0
                        /\ currentShape[j].y < GRID_SIZE}} |-> "full"]

\* the priorities with the halftone map ahead of customStates
finalStatesOf_HalftoneFirst(custom, ht, halftoneStates, defaultStates) ==
    IF ht # Undefined /\ ht[1].enabled # Some(FALSE) THEN halftoneStates
    ELSE IF custom # Undefined THEN custom[1]
    ELSE defaultStates

\* the map the effect displays: customStates, else the halftone map when
\* halftone is given and enabled is not false, else the full-only map
finalStatesOf(custom, ht, halftoneStates, defaultStates) ==
    IF custom # Undefined THEN custom[1]
    ELSE IF ht # Undefined /\ ht[1].enabled # Some(FALSE) THEN halftoneStates
    ELSE defaultStates

\* the render effect, steps of lines 120-188
RenderEffect ==
    /\ lpc = "effect"
    /\ LET currentShape == animationPath[currentShapeIndex + 1]
           strat == halftone[1].strategy
           isTrail == halftone # Undefined /\ strat.type = "trail"
           history == IF isTrail
                      THEN updatedHistory(currentShape, frameHistoryRef,
                                          strat.length)
                      ELSE frameHistoryRef
           useCustom == customStates # Undefined
           useHalftone == /\ ~useCustom
                          /\ halftone # Undefined
                          /\ halftone[1].enabled # Some(FALSE)
           cacheKey == <<currentShapeIndex, strat>>
           hit == cacheKey \in CacheKeys(halftoneCache)
           called == generateHalftoneStates(currentShape, strat,
                                            Some(GRID_SIZE), Some(history))
           finalStates == finalStatesOf(customStates, halftone,
                              IF hit THEN CacheGet(halftoneCache, cacheKey)
                              ELSE called,
                              fullOnlyStates(currentShape))
       IN  /\ frameHistoryRef' = history
           /\ IF useHalftone /\ ~hit
              THEN /\ pc' = "done"
                   /\ fullPositions' = currentShape
                   /\ strategy' = strat
                   /\ gridSize' = Some(GRID_SIZE)
                   /\ frameHistory' = Some(history)
                   /\ stateMap' = called
                   /\ thrown' = "none"
                   /\ callLog' = Append(callLog,
                         [positions |-> currentShape, strat |-> strat,
                          size |-> Some(GRID_SIZE), history |-> Some(history),
                          result |-> called])
                   /\ halftoneCache' = CacheSet(halftoneCache, cacheKey,
                                                called)
              ELSE /\ pc' = IF useHalftone THEN "hit" ELSE "skipped"
                   /\ UNCHANGED <<fullPositions, strategy, gridSize,
                                  frameHistory, stateMap, thrown, callLog,
                                  halftoneCache>>
           /\ grid' = [k \in {kk \in DOMAIN finalStates :
                                 /\ kk[1] >= 0 /\ kk[1] < GRID_SIZE
                                 /\ kk[2] >= 0 /\ kk[2] < GRID_SIZE
                                 /\ finalStates[kk] # "empty"} |->
                          finalStates[k]]
    /\ lpc' = "idle"
    /\ effectRuns' = Slice0(<<currentShapeIndex>> \o effectRuns, GhostWindow)
    /\ UNCHANGED <<customStates, animationPath, halftone, currentShapeIndex, ticks,
                   rerenders, shownFrames>>
    /\ UNCHANGED usageVars

\* an updater that steps over a frame: prev => (prev + 2) % length
nextShapeIndex_Skip(prev, length) == (prev + 2) % length

\* the functional updater of the interval: prev => (prev + 1) % length
nextShapeIndex(prev, length) == (prev + 1) % length

\* the interval fires: setCurrentShapeIndex(prev => (prev + 1) % length);
\* the new index re-renders the Loader and schedules the effect
Advance ==
    /\ lpc = "idle"
    /\ LET next == nextShapeIndex(currentShapeIndex, Len(animationPath))
       IN  /\ currentShapeIndex' = next
           /\ lpc' = IF next = currentShapeIndex THEN "idle" ELSE "effect"
           /\ shownFrames' = IF next = currentShapeIndex THEN shownFrames
                             ELSE Slice0(<<animationPath[next + 1]>> \o shownFrames,
                                         GhostWindow)
    /\ UNCHANGED <<customStates, animationPath, halftone, frameHistoryRef, halftoneCache,
                   grid, rerenders, effectRuns>>
    /\ UNCHANGED halftoneVars
    /\ UNCHANGED usageVars

\* a firing of the interval, counted up to MaxTicks
Tick ==
    /\ ticks < MaxTicks
    /\ Advance
    /\ ticks' = ticks + 1

\* a firing of the interval that is not counted: the interval of
\* setInterval fires for as long as the Loader is mounted
TimerFires ==
    /\ Advance
    /\ UNCHANGED ticks

\* the parent renders again (setSpeed of the speed control) and passes an
\* equal halftone object of a new identity, which is a changed dependency of
\* the render effect; a changed speed makes the timer effect clear the
\* interval and create a new one, which leaves currentShapeIndex alone
ParentRerender ==
    /\ lpc = "idle"
    /\ rerenders < MaxRerenders
    /\ rerenders' = rerenders + 1
    /\ lpc' = "effect"
    /\ UNCHANGED <<customStates, animationPath, halftone, currentShapeIndex,
                   frameHistoryRef, halftoneCache, grid, ticks, shownFrames,
                   effectRuns>>
    /\ UNCHANGED halftoneVars
    /\ UNCHANGED usageVars

NextLoader == RenderEffect \/ Tick \/ ParentRerender

SpecLoader == InitLoader /\ [][NextLoader]_vars

(* The Loader with every combination of customStates and halftone          *)

\* animations with cells inside and outside the 5x5 grid
PriorityPaths ==
    AnimationPaths \cup
        {<<<<Pos(4, 4), Pos(5, 4)>>, <<Pos(-1, 0), Pos(0, 0)>>>>}

PriorityStrategies ==
    {[type |-> "trail", length |-> 2],
     [type |-> "neighbors", orthogonalOnly |-> Undefined,
      distance |-> Undefined]}

PriorityHalftones ==
    {Undefined} \cup
        {Some([strategy |-> st, enabled |-> e]) :
            st \in PriorityStrategies,
            e \in {Undefined, Some(TRUE), Some(FALSE)}}

\* customStates absent, an empty Map, and a Map with a mid cell, a full
\* cell, a cell set to "empty" and a key outside the grid
PriorityCustomStates ==
    {Undefined, Some(EmptyMap),
     Some((<<0, 0>> :> "mid") @@ (<<4, 4>> :> "full") @@
          (<<1, 1>> :> "empty") @@ (<<5, 0>> :> "full"))}

InitPriority ==
    /\ animationPath \in PriorityPaths
    /\ halftone \in PriorityHalftones
    /\ customStates \in PriorityCustomStates
    /\ currentShapeIndex = 0
    /\ frameHistoryRef = <<>>
    /\ halftoneCache = <<>>
    /\ grid = EmptyMap
    /\ lpc = "effect"
    /\ ticks = 0
    /\ rerenders = 0
    /\ shownFrames = <<animationPath[1]>>
    /\ effectRuns = <<>>
    /\ HalftoneIdle
    /\ UsageIdle

SpecPriority == InitPriority /\ [][NextLoader]_vars

(* The halftone cache of a Loader with a long animation                    *)

MaxCacheTicks == 104
CachePathLength == 103

\* the strategy of the halftone prop is changed while the cache is close to
\* its limit
SwitchAfterTicks == CacheLimit - 3

\* an animation of single cells that visits the 5x5 grid row by row
CachePath ==
    [i \in 1..CachePathLength |->
        <<Pos((i - 1) % GRID_SIZE, ((i - 1) \div GRID_SIZE) % GRID_SIZE)>>]

CacheHalftones ==
    {Some([strategy |-> [type |-> "neighbors",
                         orthogonalOnly |-> Undefined,
                         distance |-> Undefined],
           enabled |-> Undefined]),
     Some([strategy |-> [type |-> "distance",
                         radius |-> [num |-> 1, den |-> 1]],
           enabled |-> Undefined])}

InitCache ==
    /\ animationPath = CachePath
    /\ halftone \in CacheHalftones
    /\ customStates = Undefined
    /\ currentShapeIndex = 0
    /\ frameHistoryRef = <<>>
    /\ halftoneCache = <<>>
    /\ grid = EmptyMap
    /\ lpc = "effect"
    /\ ticks = 0
    /\ rerenders = 0
    /\ shownFrames = <<animationPath[1]>>
    /\ effectRuns = <<>>
    /\ HalftoneIdle
    /\ UsageIdle

\* a firing of the interval, counted up to MaxCacheTicks
TickCache ==
    /\ ticks < MaxCacheTicks
    /\ Advance
    /\ ticks' = ticks + 1

\* the parent renders again with another strategy in the halftone prop:
\* halftoneKey changes and the render effect runs on the same cache
ParentSwitchesHalftone ==
    /\ lpc = "idle"
    /\ ticks >= SwitchAfterTicks
    /\ rerenders < MaxRerenders
    /\ rerenders' = rerenders + 1
    /\ halftone' \in CacheHalftones \ {halftone}
    /\ lpc' = "effect"
    /\ UNCHANGED <<customStates, animationPath, currentShapeIndex, frameHistoryRef,
                   halftoneCache, grid, ticks, shownFrames, effectRuns>>
    /\ UNCHANGED halftoneVars
    /\ UNCHANGED usageVars

NextCache == RenderEffect \/ TickCache \/ ParentSwitchesHalftone

SpecCache == InitCache /\ [][NextCache]_vars

\* the mounted Loader with an interval that keeps firing: setInterval fires
\* again after every period and React runs every scheduled effect
NextLoaderLive == RenderEffect \/ TimerFires \/ ParentRerender

\* a scheduled run of the render effect completes; RenderEffect is enabled
\* exactly when lpc = "effect" and is the only step that leaves it
EffectCompletes == lpc = "effect" /\ lpc' = "idle"

SpecLoaderLive ==
    /\ InitLoader
    /\ [][NextLoaderLive]_vars
    /\ WF_vars(TimerFires)
    /\ WF_lpc(EffectCompletes)

----------------------------------------------------------------------------
(* Properties of generateHalftoneStates                                    *)

Done == pc = "done"

\* the grid size the call uses
Size == Nullish(gridSize, DefaultGridSize)

\* the coordinates of the grid
GridCoords == 0..(Size - 1)

InGrid(p) == p.x \in GridCoords /\ p.y \in GridCoords

KeyInGrid(k) == k[1] \in GridCoords /\ k[2] \in GridCoords

FullKeys == {Key(fullPositions[i]) : i \in 1..Len(fullPositions)}

InGridFullKeys == {Key(fullPositions[i]) : i \in {j \in 1..Len(fullPositions) : InGrid(fullPositions[j])}}

MidCells == CellsOf(stateMap, "mid")

FullCellsOfMap == CellsOf(stateMap, "full")

\* the history frames the trail strategy reads
ConsumedFrames ==
    IF strategy.type = "trail"
    THEN Slice0(Nullish(frameHistory, <<>>), strategy.length)
    ELSE <<>>

ConsumedKeys ==
    UNION {Range(Keys(ConsumedFrames[i])) : i \in 1..Len(ConsumedFrames)}

\* C1: in the returned map every in-grid position of fullPositions is full,
\* and no position of fullPositions is mid, whatever the strategy produced:
\* full overrides mid.
C1_FullOverridesMid ==
    Done =>
        /\ \A k \in InGridFullKeys : MapHas(stateMap, k) /\ stateMap[k] = "full"
        /\ MidCells \cap FullKeys = {}

\* a trail call whose consumed history holds a current full cell, and which
\* also produced a mid cell
C1_Witness ==
    /\ Done
    /\ strategy.type = "trail"
    /\ InGridFullKeys \cap ConsumedKeys # {}
    /\ MidCells # {}

\* C2: every key of the returned map is a coordinate inside the grid, and
\* the call raises no error, also when inputs lie outside the grid.
C2_KeysInGrid ==
    Done =>
        /\ \A k \in DOMAIN stateMap : KeyInGrid(k)
        /\ thrown = "none"

\* a call given an out-of-grid full position and an out-of-grid trail cell
C2_Witness ==
    /\ Done
    /\ \E i \in 1..Len(fullPositions) : ~InGrid(fullPositions[i])
    /\ \E k \in ConsumedKeys : ~KeyInGrid(k) /\ k \notin FullKeys
    /\ stateMap # EmptyMap

\* C3 as stated: every position of fullPositions is mapped to full.
C3_Original ==
    Done =>
        \A i \in 1..Len(fullPositions) :
            /\ MapHas(stateMap, Key(fullPositions[i]))
            /\ stateMap[Key(fullPositions[i])] = "full"

\* C3 amended: a position of fullPositions is mapped to full exactly when it
\* lies inside the grid; a position outside the grid has no entry.
C3_InGridFull ==
    Done =>
        \A i \in 1..Len(fullPositions) :
            LET p == fullPositions[i]
            IN  IF InGrid(p)
                THEN MapHas(stateMap, Key(p)) /\ stateMap[Key(p)] = "full"
                ELSE ~MapHas(stateMap, Key(p))

\* a call with one position inside and one outside the grid
C3_Witness ==
    /\ Done
    /\ \E i, j \in 1..Len(fullPositions) :
          /\ InGrid(fullPositions[i])
          /\ ~InGrid(fullPositions[j])
          /\ fullPositions[j].x >= Size
    /\ FullCellsOfMap # {}

\* the single full cell lies strictly inside the grid
SingleInterior ==
    /\ Len(fullPositions) = 1
    /\ fullPositions[1].x >= 1 /\ fullPositions[1].x <= Size - 2
    /\ fullPositions[1].y >= 1 /\ fullPositions[1].y <= Size - 2

NeighborsWith(orthogonalOnly, distance) ==
    /\ strategy.type = "neighbors"
    /\ Nullish(strategy.orthogonalOnly, FALSE) = orthogonalOnly
    /\ Nullish(strategy.distance, 1) = distance

\* C4: neighbors{orthogonalOnly:false, distance:1} around a single interior
\* full cell returns exactly nine entries: the cell as full and its eight
\* surrounding cells as mid.
C4_EightNeighbors ==
    (Done /\ NeighborsWith(FALSE, 1) /\ SingleInterior) =>
        LET c == fullPositions[1]
            around == {<<c.x + dx, c.y + dy>> : dx \in {-1, 0, 1}, dy \in {-1, 0, 1}}
        IN  /\ DOMAIN stateMap = around
            /\ Cardinality(DOMAIN stateMap) = 9
            /\ FullCellsOfMap = {Key(c)}
            /\ MidCells = around \ {Key(c)}
            /\ Cardinality(MidCells) = 8

\* scenario A: fullPositions = [(2,2)], gridSize = 5
C4_Witness ==
    /\ Done
    /\ strategy = [type |-> "neighbors", orthogonalOnly |-> Some(FALSE),
                   distance |-> Some(1)]
    /\ fullPositions = <<Pos(2, 2)>>
    /\ gridSize = Some(5)
    /\ Cardinality(DOMAIN stateMap) = 9
    /\ Cardinality((0..4) \X (0..4) \ DOMAIN stateMap) = 16

\* C5: neighbors{orthogonalOnly:true, distance:1} around a single interior
\* full cell gives exactly four mid cells: up, down, left and right.
C5_FourNeighbors ==
    (Done /\ NeighborsWith(TRUE, 1) /\ SingleInterior) =>
        LET c == fullPositions[1]
        IN  /\ MidCells = {<<c.x, c.y - 1>>, <<c.x, c.y + 1>>,
                           <<c.x - 1, c.y>>, <<c.x + 1, c.y>>}
            /\ Cardinality(MidCells) = 4
            /\ FullCellsOfMap = {Key(c)}

C5_Witness ==
    /\ Done
    /\ NeighborsWith(TRUE, 1)
    /\ SingleInterior
    /\ fullPositions = <<Pos(2, 3)>>
    /\ <<2, 4>> \in MidCells
    /\ <<3, 4>> \notin DOMAIN stateMap

C7_UnknownRejected ==
    (Done /\ strategy.type \notin KnownTypes) => thrown = "unsupported-strategy"

\* a <= b for two rationals
RatLeq(a, b) == a.num * b.den <= b.num * a.den

\* C9: for the distance strategy the mid cells of every smaller radius are
\* among the mid cells of the radius used, and the full cells are the same.
C9_DistanceMonotone ==
    (Done /\ strategy.type = "distance") =>
        \A r1 \in Radii :
            RatLeq(r1, strategy.radius) =>
                LET smaller == generateHalftoneStates(
                                   fullPositions,
                                   [type |-> "distance", radius |-> r1],
                                   gridSize, frameHistory)
                IN  /\ CellsOf(smaller, "mid") \subseteq MidCells
                    /\ CellsOf(smaller, "full") = FullCellsOfMap

\* radius 2 reaches strictly more cells than radius 1, which reaches some
C9_Witness ==
    /\ Done
    /\ strategy = [type |-> "distance", radius |-> [num |-> 2, den |-> 1]]
    /\ LET smaller == CellsOf(generateHalftoneStates(
                                  fullPositions,
                                  [type |-> "distance",
                                   radius |-> [num |-> 1, den |-> 1]],
                                  gridSize, frameHistory), "mid")
       IN  smaller # {} /\ smaller # MidCells


\* the history given to the call
History == Nullish(frameHistory, <<>>)

\* the result of the same call with only the first n frames of the history
WithFirstFrames(n) ==
    generateHalftoneStates(fullPositions, strategy, gridSize,
                           Some(SubSeq(History, 1, Min(n, Len(History)))))

\* C8 as stated: for any length L and any history of more than 10 frames
\* the result equals the result with only the first 10 frames.
C8_Original ==
    (Done /\ strategy.type = "trail" /\ Len(History) > HistoryCap) =>
        stateMap = WithFirstFrames(HistoryCap)

\* C8 amended: trail{length:L} consumes the first min(L,|H|) frames and has
\* no cap of its own; for L <= 10 and a history of more than 10 frames the
\* result equals the result with only the first 10 frames.
C8_TrailConsumesLength ==
    (Done /\ strategy.type = "trail" /\ strategy.length >= 0) =>
        /\ stateMap = WithFirstFrames(strategy.length)
        /\ (strategy.length <= HistoryCap /\ Len(History) > HistoryCap) =>
              stateMap = WithFirstFrames(HistoryCap)

\* a call with L <= 10 whose eleventh frame holds a cell that no earlier
\* frame holds and that is not full
C8_Witness ==
    /\ Done
    /\ strategy.type = "trail"
    /\ strategy.length >= 1 /\ strategy.length <= HistoryCap
    /\ Len(History) > HistoryCap
    /\ \E k \in Range(Keys(History[HistoryCap + 1])) :
          /\ KeyInGrid(k)
          /\ k \notin FullKeys
          /\ \A i \in 1..HistoryCap : k \notin Range(Keys(History[i]))
    /\ MidCells # {}


----------------------------------------------------------------------------
(* Properties of createUsagePositions                                      *)

Returned == upc = "returned"

maxRow == GRID_ROWS - 1

\* C10: the generator emits one point per column, the x-values being the
\* column indices 0..columns-1 in order, and every y is an integer in
\* 0..maxRow, for every level, trend and sequence of random draws.
C10_OnePointPerColumn ==
    Returned =>
        /\ Len(usagePositions) = GRID_COLUMNS
        /\ \A c \in 0..(GRID_COLUMNS - 1) :
              Cardinality({i \in 1..Len(usagePositions) :
                              usagePositions[i].x = c}) = 1
        /\ \A i \in 1..Len(usagePositions) :
              /\ usagePositions[i].x \in 0..(GRID_COLUMNS - 1)
              /\ usagePositions[i].y \in 0..maxRow

\* a returned series for an out-of-range level and a rising trend whose
\* base heights exceed the grid, with points on the bottom row and near the
\* top
C10_Witness ==
    /\ Returned
    /\ usageLevel.num > usageLevel.den
    /\ usageTrend.num > 0
    /\ baseHeights(clampedLevel, clampedTrend)[GRID_COLUMNS] > maxHeight
    /\ \E i \in 1..Len(usagePositions) : usagePositions[i].y <= 1
    /\ \E i \in 1..Len(usagePositions) : usagePositions[i].y >= maxRow - 2

\* the rows emitted at a column
RowsAt(c) ==
    {usagePositions[i].y : i \in {j \in 1..Len(usagePositions) :
                                     usagePositions[j].x = c}}

\* the rows strictly between two rows
RowsBetween(a, b) == {r \in 0..maxRow : Min(a, b) < r /\ r < Max(a, b)}

\* C11: for adjacent columns c and c+1 the rows emitted at column c include
\* every row between column c's height-row and column c+1's height-row, so
\* the path never jumps more than one row between adjacent columns.
C11_GapFill ==
    Returned =>
        \A c \in 0..(GRID_COLUMNS - 2) :
            \A a \in RowsAt(c) : \A b \in RowsAt(c + 1) :
                RowsBetween(a, b) \subseteq RowsAt(c)

\* C12: with level = 0 and trend = 0 every emitted row stays within the
\* jitter bound of the bottom row: maxRow - J <= y <= maxRow, where
\* J = Math.max(1, Math.round(0 * 2)) is the jitter bound for level 0.
C12_FlatBaseline ==
    (Returned /\ usageLevel.num = 0 /\ usageTrend.num = 0) =>
        LET J == Max(1, Round(0, 1))
        IN  \A i \in 1..Len(usagePositions) :
                /\ maxRow - J <= usagePositions[i].y
                /\ usagePositions[i].y <= maxRow

\* a level-0, trend-0 series in which a draw lifted a target off the bottom
C12_Witness ==
    /\ Returned
    /\ usageLevel.num = 0
    /\ usageTrend.num = 0
    /\ \E i \in 1..Len(targets) : targets[i] > 0
    /\ \E i \in 1..Len(targets) : targets[i] = 0
    /\ \A i \in 1..Len(usagePositions) : usagePositions[i].y = maxRow

\* the level and the trend brought into their nominal ranges [0,1], [-1,1]
NominalLevel ==
    IF usageLevel.num > usageLevel.den THEN Rat(1, 1)
    ELSE IF usageLevel.num < 0 THEN Rat(0, 1) ELSE usageLevel

NominalTrend ==
    IF usageTrend.num > usageTrend.den THEN Rat(1, 1)
    ELSE IF usageTrend.num < 0 - usageTrend.den THEN Rat(-1, 1) ELSE usageTrend

\* C13: out-of-range inputs are clamped, not rejected: for the same random
\* draws the positions equal those for the level and trend brought into
\* [0,1] and [-1,1], and no error is raised.
C13_InputsClamped ==
    Returned =>
        /\ usagePositions =
              createUsagePositions(NominalLevel, NominalTrend, randomDraws)
        /\ thrown = "none"

\* a returned series for a level above 1 and a trend below -1 that is not
\* flat
C13_Witness ==
    /\ Returned
    /\ usageLevel.num > usageLevel.den
    /\ usageTrend.num < 0 - usageTrend.den
    /\ \E i, j \in 1..Len(usagePositions) :
          usagePositions[i].y # usagePositions[j].y

\* neighbors{distance:1, orthogonalOnly:false}
HaloStrategy ==
    [type |-> "neighbors", orthogonalOnly |-> Some(FALSE), distance |-> Some(1)]

\* C14: on a square grid buildStateMap returns the map that
\* generateHalftoneStates returns for neighbors{distance:1,
\* orthogonalOnly:false}, out-of-range positions included, and GridLoader
\* shows that same assignment for its shape.
C14_HaloPipeline ==
    /\ pc = "built" =>
          stateMap = generateHalftoneStates(fullPositions, HaloStrategy,
                                            gridSize, Undefined)
    /\ pc = "grid" =>
          stateMap = generateHalftoneStates(arrowShape, HaloStrategy,
                                            Some(GRID_SIZE), Undefined)

\* buildStateMap has run on a list with a position outside the grid whose
\* halo reaches into the grid, next to an in-grid full position
C14_Witness ==
    /\ pc = "built"
    /\ \E i, j \in 1..Len(fullPositions) :
          /\ ~InGrid(fullPositions[i])
          /\ InGrid(fullPositions[j])
    /\ MidCells # {}
    /\ FullCellsOfMap # {}

\* the arguments of a logged call
ArgsOf(call) == <<call.positions, call.strat, call.size, call.history>>

ReachedBy(d, orthogonalOnly) ==
    {c \in GridCoords \X GridCoords :
        /\ c \notin FullKeys
        /\ \E i \in 1..Len(fullPositions) :
              LET dx == c[1] - fullPositions[i].x
                  dy == c[2] - fullPositions[i].y
              IN  /\ <<dx, dy>> # <<0, 0>>
                  /\ dx \in (-d)..d /\ dy \in (-d)..d
                  /\ orthogonalOnly => (dx = 0 \/ dy = 0)}

\* C16: for neighbors with distance d >= 1 the mid cells are exactly the
\* in-grid cells outside fullPositions that lie at an offset (dx,dy) # (0,0)
\* with |dx| <= d and |dy| <= d from a full position, on its row or column
\* when orthogonalOnly; a grid of size 0 has no cells at all.
C16_NeighborsExact ==
    (Done /\ strategy.type = "neighbors"
          /\ Nullish(strategy.distance, 1) >= 1) =>
        /\ MidCells = ReachedBy(Nullish(strategy.distance, 1),
                                Nullish(strategy.orthogonalOnly, FALSE))
        /\ Size = 0 => DOMAIN stateMap = {}

\* distance 2 on the 5x5 grid around (1,1) and the out-of-grid (5,2):
\* cells two steps away are mid, (1,1) itself is not
C16_Witness ==
    /\ Done
    /\ strategy = [type |-> "neighbors", orthogonalOnly |-> Some(FALSE),
                   distance |-> Some(2)]
    /\ fullPositions = <<Pos(1, 1), Pos(5, 2)>>
    /\ gridSize = Some(5)
    /\ {<<3, 3>>, <<0, 0>>, <<4, 4>>, <<3, 0>>} \subseteq MidCells
    /\ <<1, 1>> \notin MidCells
    /\ <<0, 4>> \notin DOMAIN stateMap

\* the frames of the history the claim lets contribute: its first
\* min(L, |H|) frames
TrailPrefix ==
    LET H == Nullish(frameHistory, <<>>)
    IN  SubSeq(H, 1, Min(strategy.length, Len(H)))

TrailPrefixKeys ==
    UNION {Range(Keys(TrailPrefix[i])) : i \in 1..Len(TrailPrefix)}

\* C17: for trail{length:L} with history H the mid cells are exactly the
\* in-grid cells that occur in one of the first min(L,|H|) frames of H and
\* are not in fullPositions; later frames add nothing, and an empty or
\* absent history, or L = 0, gives no mid cell.
C17_TrailExact ==
    (Done /\ strategy.type = "trail") =>
        /\ MidCells = {k \in TrailPrefixKeys : KeyInGrid(k) /\ k \notin FullKeys}
        /\ (Nullish(frameHistory, <<>>) = <<>> \/ strategy.length = 0)
              => MidCells = {}

\* a history of two frames read with length 1: the cell of the first frame
\* is mid, the cells of the second frame are absent
C17_Witness ==
    /\ Done
    /\ strategy = [type |-> "trail", length |-> 1]
    /\ Len(Nullish(frameHistory, <<>>)) = 2
    /\ frameHistory[1][1] = <<Pos(2, 2)>>
    /\ frameHistory[1][2] = <<Pos(0, 0), Pos(1, 1)>>
    /\ gridSize = Some(5)
    /\ fullPositions = <<Pos(4, 4)>>
    /\ MidCells = {<<2, 2>>}
    /\ <<0, 0>> \notin DOMAIN stateMap

\* the squared Euclidean distance between a key and a position
SquaredDistance(k, p) ==
    (k[1] - p.x) * (k[1] - p.x) + (k[2] - p.y) * (k[2] - p.y)

\* the smallest squared distance from a key to the full positions
MinSquaredDistance(k) ==
    CHOOSE q \in {SquaredDistance(k, fullPositions[i]) :
                     i \in 1..Len(fullPositions)} :
        \A j \in 1..Len(fullPositions) :
            q <= SquaredDistance(k, fullPositions[j])

\* 0 < d <= r for the distance d with d^2 = q and the rational radius r
WithinOf(q, r) ==
    /\ q > 0
    /\ r.num >= 0
    /\ q * r.den * r.den <= r.num * r.num

\* C18: for distance{radius:r} a grid cell is mid exactly when it is not in
\* fullPositions and its minimum Euclidean distance d to the full positions
\* satisfies 0 < d <= r; no other non-full cell has an entry.
C18_DistanceExact ==
    (Done /\ strategy.type = "distance") =>
        /\ MidCells =
              {k \in GridCoords \X GridCoords :
                  /\ k \notin FullKeys
                  /\ fullPositions # <<>>
                  /\ WithinOf(MinSquaredDistance(k), strategy.radius)}
        /\ DOMAIN stateMap \ FullKeys = MidCells

\* radius 3/2 around (1,1) and (2,2) on the 5x5 grid: (3,3) at distance
\* sqrt 2 from the nearer full cell is mid, (0,3) at distance sqrt 5 is not
C18_Witness ==
    /\ Done
    /\ strategy = [type |-> "distance", radius |-> [num |-> 3, den |-> 2]]
    /\ fullPositions = <<Pos(1, 1), Pos(2, 2)>>
    /\ gridSize = Some(5)
    /\ <<3, 3>> \in MidCells
    /\ <<0, 0>> \in MidCells
    /\ <<0, 3>> \notin DOMAIN stateMap
    /\ MinSquaredDistance(<<3, 3>>) = 2

RECURSIVE CoordSum(_, _)
CoordSum(i, axis) ==
    IF i > Len(fullPositions) THEN 0
    ELSE (IF axis = "x" THEN fullPositions[i].x ELSE fullPositions[i].y)
            + CoordSum(i + 1, axis)

\* the squared distance from the point (x, y) to the centroid of
\* fullPositions, times the square of the number of full positions
CentroidSquaredDistance(x, y) ==
    LET n == Len(fullPositions)
        ex == n * x - CoordSum(1, "x")
        ey == n * y - CoordSum(1, "y")
    IN  ex * ex + ey * ey

\* a non-full in-grid cell next to a full position, in the eight directions
GradientCandidates ==
    {k \in GridCoords \X GridCoords :
        /\ k \notin FullKeys
        /\ \E i \in 1..Len(fullPositions) :
              /\ k[1] - fullPositions[i].x \in -1..1
              /\ k[2] - fullPositions[i].y \in -1..1}

\* C19: for the gradient strategy a cell is mid exactly when it is a
\* non-full in-grid 8-neighbour of a full position and some full position is
\* strictly nearer to the centroid of fullPositions than the cell
\* (outward), or strictly farther (inward).
C19_GradientExact ==
    (Done /\ strategy.type = "gradient") =>
        MidCells =
            {k \in GradientCandidates :
                \E i \in 1..Len(fullPositions) :
                    LET f == CentroidSquaredDistance(fullPositions[i].x,
                                                     fullPositions[i].y)
                        c == CentroidSquaredDistance(k[1], k[2])
                    IN  IF strategy.direction = "outward"
                        THEN f < c ELSE f > c}

\* the Loader has run its render effect for the current frame with trail
LoaderTrailShown ==
    /\ lpc = "idle"
    /\ halftone # Undefined
    /\ halftone[1].strategy.type = "trail"

\* the frames displayed immediately before the current one, most recent
\* first, at most L of them
FramesBefore ==
    LET before == Tail(shownFrames)
    IN  SubSeq(before, 1, Min(halftone[1].strategy.length, Len(before)))

FramesBeforeKeys ==
    UNION {Range(Keys(FramesBefore[i])) : i \in 1..Len(FramesBefore)}

\* C20: in the animated Loader with trail{length:L} the history passed to
\* generateHalftoneStates is the list of the frames displayed before the
\* current one, most recent first, without the current frame, and the mid
\* cells shown are the cells of the L frames displayed immediately before
\* the current one (of all earlier frames while fewer were displayed).
C20_TrailOfPreviousFrames ==
    LoaderTrailShown =>
        /\ pc = "done" => frameHistory = Some(FramesBefore)
        /\ CellsOf(grid, "mid") =
              {k \in FramesBeforeKeys :
                  /\ k[1] \in 0..(GRID_SIZE - 1) /\ k[2] \in 0..(GRID_SIZE - 1)
                  /\ k \notin Range(Keys(shownFrames[1]))}

\* the Loader has run its render effect for the current frame with a
\* halftone prop
LoaderHalftoneShown ==
    /\ lpc = "idle"
    /\ halftone # Undefined

\* the cells of a state map that lie on the 5x5 grid of the Loader
OnLoaderGrid(m) ==
    [k \in {kk \in DOMAIN m : /\ kk[1] \in 0..(GRID_SIZE - 1)
                              /\ kk[2] \in 0..(GRID_SIZE - 1)} |-> m[k]]

\* C21: the halftone cache of the Loader is transparent: after any ticks
\* and re-renders the map displayed for the current frame is the map a fresh
\* call of generateHalftoneStates on the current shape, the strategy, grid
\* size 5 and the current frame history returns.
C21_CacheTransparent ==
    LoaderHalftoneShown =>
        grid = OnLoaderGrid(
                  generateHalftoneStates(animationPath[currentShapeIndex + 1],
                                         halftone[1].strategy,
                                         Some(GRID_SIZE),
                                         Some(frameHistoryRef)))

\* the Loader has a trail strategy
LoaderTrail ==
    /\ lpc # "off"
    /\ halftone # Undefined
    /\ halftone[1].strategy.type = "trail"

\* C22: in the Loader with trail{length:L} the stored frame history never
\* has more than min(L,10) entries, and its entries are the frames of the
\* latest runs of the render effect, the most recent first.
C22_HistoryCapped ==
    LoaderTrail =>
        /\ Len(frameHistoryRef) <= Min(halftone[1].strategy.length, 10)
        /\ Len(frameHistoryRef) <= Len(effectRuns)
        /\ \A i \in 1..Len(frameHistoryRef) :
              frameHistoryRef[i] = animationPath[effectRuns[i] + 1]

\* with length 12 the render effect has run twelve times and ten frames
\* are stored
C22_Witness ==
    /\ LoaderTrail
    /\ halftone[1].strategy.length = 12
    /\ Len(effectRuns) = 12
    /\ Len(frameHistoryRef) = 10
    /\ frameHistoryRef[1] # frameHistoryRef[2]

\* frame b is the frame that follows frame a in the animation
FollowsInPath(a, b) ==
    \E k \in 1..Len(animationPath) :
        /\ animationPath[k] = a
        /\ animationPath[(k % Len(animationPath)) + 1] = b

\* C23: the frame history of the Loader gets one entry per frame advance: a
\* run of the render effect for the frame index of the previous run leaves
\* the history as it was, and neighbouring entries of the history are
\* consecutive frames of the animation.
C23_OneEntryPerAdvance ==
    [][(LoaderTrail /\ lpc = "effect" /\ lpc' = "idle") =>
          /\ (effectRuns # <<>> /\ effectRuns[1] = currentShapeIndex)
                => frameHistoryRef' = frameHistoryRef
          /\ \A i \in 1..(Len(frameHistoryRef') - 1) :
                FollowsInPath(frameHistoryRef'[i + 1], frameHistoryRef'[i])]_vars

\* the indices a frame of some animation has
PathIndices == UNION {0..(Len(path) - 1) : path \in AnimationPaths}

\* the Loader is at rest and its grid shows every cell of frame k as full
FrameDisplayed(k) ==
    /\ lpc = "idle"
    /\ currentShapeIndex = k
    /\ \A i \in 1..Len(animationPath[k + 1]) :
          /\ Key(animationPath[k + 1][i]) \in DOMAIN grid
          /\ grid[Key(animationPath[k + 1][i])] = "full"

\* C24: for an animated Loader with n frames currentShapeIndex stays in
\* 0..n-1, every firing of the timer moves it to (index + 1) mod n, the
\* last n frames shown are all n frames, a re-render of the parent on a
\* speed change leaves the index alone, and while the timer keeps firing
\* every frame is displayed again and again.
C24_IndexCycles ==
    /\ [](currentShapeIndex \in 0..(Len(animationPath) - 1))
    /\ [][(lpc = "idle" /\ rerenders' = rerenders) =>
             currentShapeIndex' =
                 (currentShapeIndex + 1) % Len(animationPath)]_vars
    /\ [][rerenders' # rerenders =>
             currentShapeIndex' = currentShapeIndex]_vars
    /\ [](Len(shownFrames) >= Len(animationPath) =>
             {shownFrames[i] : i \in 1..Len(animationPath)} =
                 {animationPath[j] : j \in 1..Len(animationPath)})
    /\ \A k \in PathIndices :
          []<>(k < Len(animationPath) => FrameDisplayed(k))

\* the index has gone once around a path of three frames, with a speed
\* change on the way
C24_Witness ==
    /\ lpc = "idle"
    /\ Len(animationPath) = 3
    /\ currentShapeIndex = 0
    /\ Len(shownFrames) > Len(animationPath)
    /\ rerenders = 1
    /\ FrameDisplayed(0)

\* C25: the halftone cache of the Loader never holds more than 100 entries,
\* and an insertion into a cache of 100 entries removes the entry inserted
\* earliest and keeps the other 99, in their order, before the new one.
C25_CacheBounded ==
    [][LET cacheKey == <<currentShapeIndex, halftone[1].strategy>>
       IN  /\ Len(halftoneCache') <= 100
           /\ (/\ lpc = "effect" /\ lpc' = "idle"
               /\ cacheKey \notin CacheKeys(halftoneCache)
               /\ Len(halftoneCache) = 100) =>
                 /\ Len(halftoneCache') = 100
                 /\ \A i \in 1..99 : halftoneCache'[i] = halftoneCache[i + 1]
                 /\ halftoneCache'[100].key = cacheKey
                 /\ halftoneCache[1].key \notin CacheKeys(halftoneCache')]_vars

\* the cache is full and the entry of the first frame has been removed
C25_Witness ==
    /\ lpc = "idle"
    /\ Len(halftoneCache) = 100
    /\ ticks >= 100
    /\ \A i \in 1..Len(halftoneCache) : halftoneCache[i].key[1] # 0

\* the cells of the 5x5 grid of the Loader
LoaderCells == {<<x, y>> : x \in 0..4, y \in 0..4}

\* the state a map gives a cell: absent cells are empty
CellState(m, k) == IF k \in DOMAIN m THEN m[k] ELSE "empty"

\* the cells of the current shape
CurrentShapeKeys ==
    {Key(animationPath[currentShapeIndex + 1][i]) :
        i \in 1..Len(animationPath[currentShapeIndex + 1])}

\* C26: after the render effect the grid of the Loader shows, cell by cell,
\* customStates when it is given; else, when halftone is given and enabled
\* is not false, the halftone state map of the current shape (for a
\* strategy other than trail the map generateHalftoneStates returns, for
\* every strategy a map whose full cells are the in-grid cells of the
\* shape); else the in-grid cells of the shape full and no cell mid.
C26_DisplayPriority ==
    (lpc = "idle") =>
        \A k \in LoaderCells :
            IF customStates # Undefined
            THEN CellState(grid, k) = CellState(customStates[1], k)
            ELSE IF halftone # Undefined /\ halftone[1].enabled # Some(FALSE)
            THEN /\ (CellState(grid, k) = "full") <=> (k \in CurrentShapeKeys)
                 /\ halftone[1].strategy.type # "trail" =>
                       CellState(grid, k) =
                           CellState(generateHalftoneStates(
                                         animationPath[currentShapeIndex + 1],
                                         halftone[1].strategy,
                                         Some(5), Undefined), k)
            ELSE CellState(grid, k) =
                     (IF k \in CurrentShapeKeys THEN "full" ELSE "empty")

\* customStates is displayed although a halftone with a neighbours halo is
\* given and enabled
C26_Witness ==
    /\ lpc = "idle"
    /\ customStates # Undefined
    /\ DOMAIN customStates[1] # {}
    /\ halftone # Undefined
    /\ halftone[1].enabled = Some(TRUE)
    /\ halftone[1].strategy.type = "neighbors"
    /\ CellState(grid, <<0, 0>>) = "mid"
    /\ <<1, 0>> \notin DOMAIN grid
    /\ currentShapeIndex = 1

\* C27: in the jitter loop of createUsagePositions every new running height
\* is round(current * 0.55 + target * 0.45) for the clamped target of the
\* column, lies between the previous running height and that target, and
\* is the height pushed; the running height and every pushed height are
\* integers in 0..12.
C27_BlendTowardsTarget ==
    /\ [](upc # "idle" =>
             /\ current \in 0..12
             /\ \A i \in 1..Len(heights) : heights[i] \in 0..12
             /\ \A i \in 1..Len(targets) : targets[i] \in 0..12)
    /\ [][column' = column + 1 =>
             LET target == targets'[Len(targets')]
                 exact100 == current * 55 + target * 45
             IN  /\ Len(targets') = column'
                 /\ Len(heights') = column'
                 /\ heights'[column'] = current'
                 /\ current' >= (IF current <= target THEN current ELSE target)
                 /\ current' <= (IF current <= target THEN target ELSE current)
                 /\ 100 * current' > exact100 - 50
                 /\ 100 * current' <= exact100 + 50]_vars

\* a height that lies strictly between the previous height and the target
\* of its column, and one that stayed where it was next to its target
C27_Witness ==
    /\ upc = "jitter"
    /\ Len(heights) >= 3
    /\ \E i \in 2..Len(heights) :
          /\ heights[i] # heights[i - 1]
          /\ heights[i] # targets[i]
    /\ \E i \in 2..Len(heights) :
          /\ heights[i] = heights[i - 1]
          /\ heights[i] # targets[i]

RatEq(a, b) == a.num * b.den = b.num * a.den

\* C29: for a target amount >= 0 and a number of steps >= 1 the pattern
\* generateSpikePattern returns has steps + 1 entries, starts at 0, never
\* decreases, never exceeds the target and ends at the target; the amount
\* the animated card displays never decreases and never exceeds usageAmount.
C29_PatternMonotone ==
    /\ [](cpc \in {"running", "cleared"} =>
             /\ Len(pattern) = spikeSteps + 1
             /\ RatEq(pattern[1], Rat(0, 1))
             /\ RatEq(pattern[Len(pattern)], Rat(usageAmount, 1))
             /\ \A i \in 1..Len(pattern) :
                   RatLeq(pattern[i], Rat(usageAmount, 1))
             /\ \A i \in 1..(Len(pattern) - 1) :
                   RatLeq(pattern[i], pattern[i + 1]))
    /\ [](animated => RatLeq(currentAmount, Rat(usageAmount, 1)))
    /\ [][animated => RatLeq(currentAmount, currentAmount')]_vars

\* a pattern of 30 steps with a spike and a gradual step that is displayed
\* to its end
C29_Witness ==
    /\ cpc = "cleared"
    /\ spikeSteps = 30
    /\ usageAmount = 150
    /\ \E i \in 1..Len(spikeDraws) : spikeDraws[i] < 2
    /\ \E i \in 1..Len(spikeDraws) : spikeDraws[i] >= 2
    /\ \E i \in 2..(Len(pattern) - 1) :
          /\ ~RatLeq(pattern[i], pattern[i - 1])
          /\ ~RatLeq(Rat(usageAmount, 1), pattern[i])

\* C28: with animated = true every firing of the interval before the end of
\* the pattern displays the next entry of the pattern and its 120th as the
\* level; the interval fires at most pattern length + 1 times; in the end
\* it is cleared with the displayed amount equal to usageAmount and the
\* displayed level equal to usageLevel, for good. With animated = false
\* both equal the props once the effect has run.
C28_AnimationSettles ==
    /\ [][(cpc = "running" /\ step < Len(pattern) - 1) =>
             /\ cpc' = "running"
             /\ currentAmount' = pattern[step + 1]
             /\ RatEq(currentLevel',
                      Rat(pattern[step + 1].num, pattern[step + 1].den * 120))
             /\ step' = step + 1]_vars
    /\ [](cardTicks <= Len(pattern) + 1)
    /\ []((cpc = "cleared" \/ cpc = "static") =>
             /\ RatEq(currentAmount, Rat(usageAmount, 1))
             /\ RatEq(currentLevel, cardLevel))
    /\ [](cpc = "static" <=> (~animated /\ cpc # "mounted"))
    /\ <>[](animated => cpc = "cleared")
    /\ <>[](~animated => cpc = "static")

\* the interval of a pattern of 30 steps has been cleared after it showed an
\* amount and a level other than the props
C28_Witness ==
    /\ cpc = "cleared"
    /\ animated
    /\ spikeSteps = 30
    /\ cardTicks = 31
    /\ usageAmount = 60
    /\ currentLevel = Rat(5, 4)
    /\ step = 30

UnitDistance == [type |-> "distance", radius |-> [num |-> 1, den |-> 1]]

UnitNeighbors ==
    [type |-> "neighbors", orthogonalOnly |-> Some(TRUE), distance |-> Some(1)]

\* C30: for every list of full positions and every grid size a call with
\* distance{radius: 1} returns a map with the entries a call with
\* neighbors{orthogonalOnly: true, distance: 1} returns, and the other way
\* round.
C30_UnitRangeAgrees ==
    Done =>
        /\ strategy = UnitDistance =>
              stateMap = generateHalftoneStates(fullPositions, UnitNeighbors,
                                                gridSize, frameHistory)
        /\ strategy = UnitNeighbors =>
              stateMap = generateHalftoneStates(fullPositions, UnitDistance,
                                                gridSize, frameHistory)

\* radius 1 on the 5x5 grid around (1,1) and the off-grid cell (-1,0): the
\* cells beside them are mid, the diagonal cell (0,2) is not
C30_Witness ==
    /\ Done
    /\ strategy = UnitDistance
    /\ fullPositions = <<Pos(1, 1), Pos(-1, 0)>>
    /\ gridSize = Some(5)
    /\ <<0, 0>> \in DOMAIN stateMap /\ stateMap[<<0, 0>>] = "mid"
    /\ <<1, 2>> \in DOMAIN stateMap /\ stateMap[<<1, 2>>] = "mid"
    /\ <<0, 2>> \notin DOMAIN stateMap
    /\ thrown = "none"

====
